---- MODULE Spec2Model ----
(***************************************************************************)
(* Model of the conversion workflow controller of the Universal Unit       *)
(* Converter front end (unit_converter_frontend/src/App.js).               *)
(*                                                                         *)
(* The state is the state of the App component: one variable per useState  *)
(* hook, plus the fetch requests that are in flight.  One action is one    *)
(* event of the single-threaded event loop: a DOM event handler, or the    *)
(* continuation of an async handler after its awaits.  An action ends      *)
(* with the commit React makes for the handler's state updates, the        *)
(* useEffect callbacks whose dependencies changed included.  The updates   *)
(* of one continuation are committed together (automatic batching).        *)
(*                                                                         *)
(* A JavaScript string is a TLA+ string; a template literal is the         *)
(* sequence of its pieces, and the empty sequence is the empty string.     *)
(***************************************************************************)
EXTENDS Integers, Sequences, FiniteSets, TLC

(* ----------------------------- bounds ---------------------------------- *)
\* user edits (field changes and toggles) explored in one behaviour
MaxEdits == 3
\* accepted submits explored in one behaviour
MaxSubmits == 3
\* user edits and accepted submits explored by the ledger specification
LedgerEdits == 2
LedgerSubmits == 11
\* applications of formatUnit to one text, and the length of the texts
\* given to it besides the identifiers of the catalog
MaxPasses == 2
MaxTextLen == 2

(* ----------------------------- catalog --------------------------------- *)
staticConfig ==
  [ Length      |-> <<"meter", "kilometer", "mile", "inch", "foot">>,
    Weight      |-> <<"gram", "kilogram", "pound", "ounce">>,
    Temperature |-> <<"celsius", "fahrenheit", "kelvin">>,
    Speed       |-> <<"meter_per_second", "kilometer_per_hour", "mile_per_hour">>,
    Currency    |-> <<"USD", "EUR", "GBP", "JPY", "INR">> ]

Range(s) == { s[i] : i \in 1..Len(s) }

\* the options of the category selector
CategoryOptions == (DOMAIN staticConfig) \ {"Currency"}

\* the options of the two unit selectors
UnitOptions(cat) == Range(staticConfig[cat])

\* the options of the two currency selectors
CurrencyOptions == Range(staticConfig["Currency"])

\* what the user can type into a number input: nothing, or a number
Values == {"", "5", "7"}

(* ------------------------- the conversion service ---------------------- *)
\* reached: fetch resolved; ok: res.ok; body: the body parses as a JSON
\* object; hasDetail/detail and hasResult/result: the fields of that object
Resp(reached, ok, body, hasDetail, detail, hasResult, res) ==
  [ reached |-> reached, ok |-> ok, body |-> body, hasDetail |-> hasDetail,
    detail |-> detail, hasResult |-> hasResult, result |-> res ]

NoResp == Resp(FALSE, FALSE, FALSE, FALSE, "", FALSE, "-")

Unreachable == Resp(FALSE, FALSE, FALSE, FALSE, "", FALSE, "")

Responses ==
  { Unreachable,
    Resp(TRUE, TRUE,  TRUE,  FALSE, "", TRUE, "3.6"),
    Resp(TRUE, TRUE,  FALSE, FALSE, "", FALSE, ""),
    Resp(TRUE, FALSE, TRUE,  TRUE,  "bad unit", FALSE, ""),
    Resp(TRUE, FALSE, TRUE,  TRUE,  "", FALSE, ""),
    Resp(TRUE, FALSE, TRUE,  FALSE, "", FALSE, ""),
    Resp(TRUE, FALSE, FALSE, FALSE, "", FALSE, "") }

(* ------------------------------- state --------------------------------- *)
VARIABLES category, value, fromUnit, toUnit, result, error, isLoading,
          enableCurrency, currencyFrom, currencyTo, currencyValue,
          currencyResult, history,
          stdPending, curPending, now,
          edits, submits, maxEdits, maxSubmits, lastOp, lastResp, errorOf,
          accepted, requests, unitText, label, passes

\* stdPending, curPending: the requests whose fetch has not settled yet.
\* now: the clock read by Date.now(), a logical clock that has advanced
\*   whenever it is read.
\* edits, submits, maxEdits, maxSubmits: the events explored so far and
\*   their budgets.
\* lastOp, lastResp: the last event and, after a continuation, the response
\*   it handled.  errorOf: the workflow whose handler wrote the message that
\*   the error slot holds.
\* accepted: the submit events accepted so far, per workflow.  requests: the
\*   calls of fetch made so far, per endpoint.
\* unitText, label, passes: a unit identifier given to formatUnit, the text
\*   after the applications of formatUnit made so far, and their number;
\*   a text is the sequence of its characters.

stdVars  == <<category, value, fromUnit, toUnit>>
curVars  == <<enableCurrency, currencyFrom, currencyTo, currencyValue>>
vars == <<category, value, fromUnit, toUnit, result, error, isLoading,
          enableCurrency, currencyFrom, currencyTo, currencyValue,
          currencyResult, history, stdPending, curPending, now,
          edits, submits, maxEdits, maxSubmits, lastOp, lastResp, errorOf,
          accepted, requests, unitText, label, passes>>
fmtVars == <<unitText, label, passes>>

Min(a, b) == IF a < b THEN a ELSE b

\* hist.slice(0, n)
Slice(hist, n) == SubSeq(hist, 1, Min(n, Len(hist)))

(* --------------------------- category effect --------------------------- *)
\* units[0]
DefaultFromUnit(units) == units[1]

\* a slip: units[0] for both selectors
DefaultToUnitFirst(units) == units[1]

\* units[1] || units[0]
DefaultToUnit(units) == IF Len(units) > 1 THEN units[2] ELSE units[1]

(* ---------------------------- history effect --------------------------- *)
\* a slip: the dependency array [result, currencyResult]
HistoryDepsBoth(res, curRes) == <<res, curRes>>

\* the dependency array of the history effect: [result]
HistoryDeps(res, curRes) == <<res>>

\* a slip: one entry too many is kept, hist.slice(0, 9 + 1)
HistoryKeepTen == 9 + 1

\* the number of previous entries kept by a record: hist.slice(0, 9)
HistoryKeep == 9

\* the guard of the history effect, on the values of the committed render
HistoryGuard(cat, val, fu, tu, res, err, loading) ==
  /\ res # <<>>
  /\ val # ""
  /\ fu # ""
  /\ tu # ""
  /\ err = ""
  /\ ~loading
  /\ cat # "Currency"

HistoryEntry(cat, val, fu, tu, res, ts) ==
  [ category |-> cat, value |-> val, fromUnit |-> fu, toUnit |-> tu,
    result |-> res, timestamp |-> ts ]

\* Date.now() when the clock was last read at time t
DateNow(t) == t + 1

\* the clock after a commit that took the history from hist to hist2
Clock(t, hist, hist2) == IF hist2 = hist THEN t ELSE DateNow(t)

\* the history after the commit of a render with the given values, when the
\* previous render had dependencies oldDeps
HistoryEffect(hist, oldDeps, cat, val, fu, tu, res, curRes, err, loading, ts) ==
  IF HistoryDeps(res, curRes) # oldDeps
       /\ HistoryGuard(cat, val, fu, tu, res, err, loading)
  THEN <<HistoryEntry(cat, val, fu, tu, res, ts)>> \o Slice(hist, HistoryKeep)
  ELSE hist

(* ------------------------------- Init ---------------------------------- *)
\* the state after the first render and its effects
InitApp ==
  /\ category = "Length"
  /\ value = ""
  /\ fromUnit = "meter"
  /\ toUnit = "kilometer"
  /\ result = <<>>
  /\ error = ""
  /\ isLoading = FALSE
  /\ enableCurrency = FALSE
  /\ currencyFrom = "USD"
  /\ currencyTo = "EUR"
  /\ currencyValue = ""
  /\ currencyResult = <<>>
  /\ history = <<>>
  /\ stdPending = <<>>
  /\ curPending = <<>>
  /\ now = 0
  /\ edits = 0
  /\ submits = 0
  /\ lastOp = "Init"
  /\ lastResp = NoResp
  /\ errorOf = ""
  /\ accepted = [convert |-> 0, currency |-> 0]
  /\ requests = [convert |-> 0, currency |-> 0]

\* no label is being formatted
FormatIdle == unitText = <<>> /\ label = <<>> /\ passes = 0

Init ==
  InitApp /\ maxEdits = MaxEdits /\ maxSubmits = MaxSubmits /\ FormatIdle

InitLedger ==
  InitApp /\ maxEdits = LedgerEdits /\ maxSubmits = LedgerSubmits /\ FormatIdle

(* ------------------------------ user edits ----------------------------- *)
\* bookkeeping of a user edit
Edit(op) ==
  /\ edits < maxEdits
  /\ edits' = edits + 1
  /\ lastOp' = op
  /\ lastResp' = NoResp
  /\ UNCHANGED <<submits, maxEdits, maxSubmits, now, stdPending, curPending,
                 errorOf, accepted, requests, fmtVars>>

\* a slip: the category effect runs on mount only (dependency array [])
ChangeCategoryStaleUnits(c) ==
  /\ c # category
  /\ category' = c
  /\ Edit("ChangeCategory")
  /\ UNCHANGED <<value, fromUnit, toUnit, result, error, isLoading, curVars,
                 currencyResult, history>>

\* onChange of the category selector, and the category effect it triggers
ChangeCategory(c) ==
  /\ c # category
  /\ category' = c
  /\ fromUnit' = DefaultFromUnit(staticConfig[c])
  /\ toUnit' = DefaultToUnit(staticConfig[c])
  /\ Edit("ChangeCategory")
  /\ UNCHANGED <<value, result, error, isLoading, curVars, currencyResult, history>>

\* onChange of the value input
ChangeValue(v) ==
  /\ v # value
  /\ value' = v
  /\ Edit("ChangeValue")
  /\ UNCHANGED <<category, fromUnit, toUnit, result, error, isLoading,
                 curVars, currencyResult, history>>

\* onChange of the From selector
ChangeFromUnit(u) ==
  /\ u # fromUnit
  /\ fromUnit' = u
  /\ Edit("ChangeFromUnit")
  /\ UNCHANGED <<category, value, toUnit, result, error, isLoading,
                 curVars, currencyResult, history>>

\* onChange of the To selector
ChangeToUnit(u) ==
  /\ u # toUnit
  /\ toUnit' = u
  /\ Edit("ChangeToUnit")
  /\ UNCHANGED <<category, value, fromUnit, result, error, isLoading,
                 curVars, currencyResult, history>>

\* a slip: the toggle also resets the currency outcome
ToggleCurrencyClearing ==
  /\ enableCurrency' = ~enableCurrency
  /\ currencyResult' = <<>>
  /\ Edit("ToggleCurrency")
  /\ UNCHANGED <<stdVars, result, error, isLoading, currencyFrom, currencyTo,
                 currencyValue, history>>

\* onChange of the "Enable currency converter" checkbox
ToggleCurrency ==
  /\ enableCurrency' = ~enableCurrency
  /\ Edit("ToggleCurrency")
  /\ UNCHANGED <<stdVars, result, error, isLoading, currencyFrom, currencyTo,
                 currencyValue, currencyResult, history>>

\* onChange of the Amount input; the currency form is rendered only when
\* the converter is enabled
ChangeCurrencyValue(v) ==
  /\ enableCurrency
  /\ v # currencyValue
  /\ currencyValue' = v
  /\ Edit("ChangeCurrencyValue")
  /\ UNCHANGED <<stdVars, result, error, isLoading, enableCurrency,
                 currencyFrom, currencyTo, currencyResult, history>>

\* onChange of the currency From selector
ChangeCurrencyFrom(c) ==
  /\ enableCurrency
  /\ c # currencyFrom
  /\ currencyFrom' = c
  /\ Edit("ChangeCurrencyFrom")
  /\ UNCHANGED <<stdVars, result, error, isLoading, enableCurrency,
                 currencyTo, currencyValue, currencyResult, history>>

\* onChange of the currency To selector
ChangeCurrencyTo(c) ==
  /\ enableCurrency
  /\ c # currencyTo
  /\ currencyTo' = c
  /\ Edit("ChangeCurrencyTo")
  /\ UNCHANGED <<stdVars, result, error, isLoading, enableCurrency,
                 currencyFrom, currencyValue, currencyResult, history>>

(* --------------------------- standard workflow ------------------------- *)
\* a slip: disabled={isLoading}
ConvertEnabledEmptyValue == ~isLoading

\* a slip: disabled={!value}
ConvertEnabledWhileLoading == ~(value = "")

\* the standard submit button is enabled: disabled={isLoading || !value}
ConvertEnabled == ~(isLoading \/ value = "")

\* the body of the request, and the toUnit the continuation closes over
ConvertRequest ==
  [ category |-> category, value |-> value, from_unit |-> fromUnit,
    to_unit |-> toUnit ]

\* a slip: handleConvert without setError('') and setResult('')
handleConvertKeepingOutcome ==
  /\ ConvertEnabled
  /\ submits < maxSubmits
  /\ submits' = submits + 1
  /\ accepted' = [accepted EXCEPT !.convert = @ + 1]
  /\ requests' = [requests EXCEPT !.convert = @ + 1]
  /\ isLoading' = TRUE
  /\ stdPending' = Append(stdPending, ConvertRequest)
  /\ history' = HistoryEffect(history, HistoryDeps(result, currencyResult),
                              category, value, fromUnit, toUnit,
                              result, currencyResult, error, TRUE, DateNow(now))
  /\ now' = Clock(now, history, history')
  /\ lastOp' = "handleConvert"
  /\ lastResp' = NoResp
  /\ UNCHANGED <<fmtVars, stdVars, curVars, result, error, errorOf, currencyResult,
                 curPending, edits, maxEdits, maxSubmits>>

\* handleConvert up to its first await
handleConvert ==
  /\ ConvertEnabled
  /\ submits < maxSubmits
  /\ submits' = submits + 1
  /\ accepted' = [accepted EXCEPT !.convert = @ + 1]
  /\ requests' = [requests EXCEPT !.convert = @ + 1]
  /\ error' = ""
  /\ result' = <<>>
  /\ isLoading' = TRUE
  /\ stdPending' = Append(stdPending, ConvertRequest)
  /\ history' = HistoryEffect(history, HistoryDeps(result, currencyResult),
                              category, value, fromUnit, toUnit,
                              <<>>, currencyResult, "", TRUE, DateNow(now))
  /\ now' = Clock(now, history, history')
  /\ lastOp' = "handleConvert"
  /\ lastResp' = NoResp
  /\ errorOf' = ""
  /\ UNCHANGED <<fmtVars, stdVars, curVars, currencyResult, curPending, edits,
                 maxEdits, maxSubmits>>

\* the response makes fetch or res.json() throw
Throws(resp) == ~resp.reached \/ ~resp.body

\* data.detail || fallback
DetailOr(resp, fallback) ==
  IF resp.hasDetail /\ resp.detail # "" THEN resp.detail ELSE fallback

\* `${data.result} ${unit}`
ResultText(resp, unit) ==
  <<IF resp.hasResult THEN resp.result ELSE "undefined", " ", unit>>

\* the error after the continuation of handleConvert
ConvertError(resp, err) ==
  IF Throws(resp) THEN "Could not reach backend."
  ELSE IF ~resp.ok THEN DetailOr(resp, "Conversion failed.")
  ELSE err

\* the result after the continuation of handleConvert for request req
ConvertResult(resp, req, res) ==
  IF Throws(resp) THEN res
  ELSE IF ~resp.ok THEN <<>>
  ELSE ResultText(resp, req.to_unit)

\* a slip: a request that could not be made or read is sent again
handleConvertSettleRetrying(i, resp) ==
  /\ i \in 1..Len(stdPending)
  /\ stdPending' = IF Throws(resp) THEN stdPending
                   ELSE SubSeq(stdPending, 1, i - 1)
                          \o SubSeq(stdPending, i + 1, Len(stdPending))
  /\ requests' = IF Throws(resp) THEN [requests EXCEPT !.convert = @ + 1]
                 ELSE requests
  /\ error' = IF Throws(resp) THEN error ELSE ConvertError(resp, error)
  /\ result' = ConvertResult(resp, stdPending[i], result)
  /\ isLoading' = Throws(resp)
  /\ history' = HistoryEffect(history, HistoryDeps(result, currencyResult),
                              category, value, fromUnit, toUnit,
                              result', currencyResult, error', isLoading',
                              DateNow(now))
  /\ now' = Clock(now, history, history')
  /\ lastOp' = "handleConvertSettle"
  /\ lastResp' = resp
  /\ errorOf' = IF ~Throws(resp) /\ ~resp.ok THEN "standard" ELSE errorOf
  /\ UNCHANGED <<fmtVars, stdVars, curVars, currencyResult, curPending, edits,
                 submits, maxEdits, maxSubmits, accepted>>

\* a slip: setIsLoading(false) as the last statement of the try block
\* instead of the finally block
handleConvertSettleNoFinally(i, resp) ==
  /\ i \in 1..Len(stdPending)
  /\ stdPending' = SubSeq(stdPending, 1, i - 1)
                     \o SubSeq(stdPending, i + 1, Len(stdPending))
  /\ error' = ConvertError(resp, error)
  /\ result' = ConvertResult(resp, stdPending[i], result)
  /\ isLoading' = IF Throws(resp) THEN isLoading ELSE FALSE
  /\ history' = HistoryEffect(history, HistoryDeps(result, currencyResult),
                              category, value, fromUnit, toUnit,
                              result', currencyResult, error', isLoading',
                              DateNow(now))
  /\ now' = Clock(now, history, history')
  /\ lastOp' = "handleConvertSettle"
  /\ lastResp' = resp
  /\ errorOf' = IF Throws(resp) \/ ~resp.ok THEN "standard" ELSE errorOf
  /\ UNCHANGED <<fmtVars, stdVars, curVars, currencyResult, curPending, edits,
                 submits, maxEdits, maxSubmits, accepted, requests>>

\* the continuation of handleConvert when request i settles with resp
handleConvertSettle(i, resp) ==
  /\ i \in 1..Len(stdPending)
  /\ stdPending' = SubSeq(stdPending, 1, i - 1)
                     \o SubSeq(stdPending, i + 1, Len(stdPending))
  /\ error' = ConvertError(resp, error)
  /\ result' = ConvertResult(resp, stdPending[i], result)
  /\ isLoading' = FALSE
  /\ history' = HistoryEffect(history, HistoryDeps(result, currencyResult),
                              category, value, fromUnit, toUnit,
                              result', currencyResult, error', FALSE, DateNow(now))
  /\ now' = Clock(now, history, history')
  /\ lastOp' = "handleConvertSettle"
  /\ lastResp' = resp
  /\ errorOf' = IF Throws(resp) \/ ~resp.ok THEN "standard" ELSE errorOf
  /\ UNCHANGED <<fmtVars, stdVars, curVars, currencyResult, curPending, edits,
                 submits, maxEdits, maxSubmits, accepted, requests>>

(* --------------------------- currency workflow ------------------------- *)
\* a slip: the currency form is rendered whether enabled or not
CurrencyConvertEnabledAlways == ~(isLoading \/ currencyValue = "")

\* the currency submit button is rendered and enabled:
\* enableCurrency && ..., disabled={isLoading || !currencyValue}
CurrencyConvertEnabled == enableCurrency /\ ~(isLoading \/ currencyValue = "")

CurrencyRequest ==
  [ amount |-> currencyValue, from_currency |-> currencyFrom,
    to_currency |-> currencyTo ]

\* handleCurrencyConvert up to its first await
handleCurrencyConvert ==
  /\ CurrencyConvertEnabled
  /\ submits < maxSubmits
  /\ submits' = submits + 1
  /\ accepted' = [accepted EXCEPT !.currency = @ + 1]
  /\ requests' = [requests EXCEPT !.currency = @ + 1]
  /\ currencyResult' = <<>>
  /\ error' = ""
  /\ isLoading' = TRUE
  /\ curPending' = Append(curPending, CurrencyRequest)
  /\ history' = HistoryEffect(history, HistoryDeps(result, currencyResult),
                              category, value, fromUnit, toUnit,
                              result, <<>>, "", TRUE, DateNow(now))
  /\ now' = Clock(now, history, history')
  /\ lastOp' = "handleCurrencyConvert"
  /\ lastResp' = NoResp
  /\ errorOf' = ""
  /\ UNCHANGED <<fmtVars, stdVars, curVars, result, stdPending, edits,
                 maxEdits, maxSubmits>>

\* a slip: the messages of handleConvert, copied unchanged
CurrencyErrorAsStandard(resp, err) == ConvertError(resp, err)

\* the error after the continuation of handleCurrencyConvert
CurrencyError(resp, err) ==
  IF Throws(resp) THEN "Could not reach backend for currency."
  ELSE IF ~resp.ok THEN DetailOr(resp, "Currency conversion failed.")
  ELSE err

\* the currency result after the continuation of handleCurrencyConvert
CurrencyResultAfter(resp, req, res) ==
  IF Throws(resp) THEN res
  ELSE IF ~resp.ok THEN <<>>
  ELSE ResultText(resp, req.to_currency)

\* the continuation of handleCurrencyConvert when request i settles
handleCurrencyConvertSettle(i, resp) ==
  /\ i \in 1..Len(curPending)
  /\ curPending' = SubSeq(curPending, 1, i - 1)
                     \o SubSeq(curPending, i + 1, Len(curPending))
  /\ error' = CurrencyError(resp, error)
  /\ currencyResult' = CurrencyResultAfter(resp, curPending[i], currencyResult)
  /\ isLoading' = FALSE
  /\ history' = HistoryEffect(history, HistoryDeps(result, currencyResult),
                              category, value, fromUnit, toUnit,
                              result, currencyResult', error', FALSE, DateNow(now))
  /\ now' = Clock(now, history, history')
  /\ lastOp' = "handleCurrencyConvertSettle"
  /\ lastResp' = resp
  /\ errorOf' = IF Throws(resp) \/ ~resp.ok THEN "currency" ELSE errorOf
  /\ UNCHANGED <<fmtVars, stdVars, curVars, result, stdPending, edits, submits,
                 maxEdits, maxSubmits, accepted, requests>>

(* ------------------------------- Next ---------------------------------- *)
Next ==
  \/ \E c \in CategoryOptions : ChangeCategory(c)
  \/ \E v \in Values : ChangeValue(v)
  \/ \E u \in UnitOptions(category) : ChangeFromUnit(u)
  \/ \E u \in UnitOptions(category) : ChangeToUnit(u)
  \/ ToggleCurrency
  \/ \E v \in Values : ChangeCurrencyValue(v)
  \/ \E c \in CurrencyOptions : ChangeCurrencyFrom(c)
  \/ \E c \in CurrencyOptions : ChangeCurrencyTo(c)
  \/ handleConvert
  \/ \E i \in 1..Len(stdPending), resp \in Responses : handleConvertSettle(i, resp)
  \/ handleCurrencyConvert
  \/ \E i \in 1..Len(curPending), resp \in Responses : handleCurrencyConvertSettle(i, resp)

Spec == Init /\ [][Next]_vars

\* every fetch settles: the promise of a request in flight is resolved or
\* rejected, and the event loop then runs the continuation of its handler
FetchSettles ==
  /\ WF_vars(\E i \in 1..Len(stdPending), resp \in Responses :
               handleConvertSettle(i, resp))
  /\ WF_vars(\E i \in 1..Len(curPending), resp \in Responses :
               handleCurrencyConvertSettle(i, resp))

SpecLive == Init /\ [][Next]_vars /\ FetchSettles

\* the events of the standard form alone, explored for more submits
NextLedger ==
  \/ \E c \in CategoryOptions : ChangeCategory(c)
  \/ \E v \in Values : ChangeValue(v)
  \/ \E u \in UnitOptions(category) : ChangeFromUnit(u)
  \/ \E u \in UnitOptions(category) : ChangeToUnit(u)
  \/ handleConvert
  \/ \E i \in 1..Len(stdPending), resp \in Responses : handleConvertSettle(i, resp)

SpecLedger == InitLedger /\ [][NextLedger]_vars

(* ------------------------------ formatUnit ----------------------------- *)
\* the unit identifiers of the catalog, character by character
Spell ==
  [ meter |-> <<"m", "e", "t", "e", "r">>,
    kilometer |-> <<"k", "i", "l", "o", "m", "e", "t", "e", "r">>,
    mile |-> <<"m", "i", "l", "e">>,
    inch |-> <<"i", "n", "c", "h">>,
    foot |-> <<"f", "o", "o", "t">>,
    gram |-> <<"g", "r", "a", "m">>,
    kilogram |-> <<"k", "i", "l", "o", "g", "r", "a", "m">>,
    pound |-> <<"p", "o", "u", "n", "d">>,
    ounce |-> <<"o", "u", "n", "c", "e">>,
    celsius |-> <<"c", "e", "l", "s", "i", "u", "s">>,
    fahrenheit |-> <<"f", "a", "h", "r", "e", "n", "h", "e", "i", "t">>,
    kelvin |-> <<"k", "e", "l", "v", "i", "n">>,
    meter_per_second |-> <<"m", "e", "t", "e", "r", "_", "p", "e", "r", "_", "s", "e", "c", "o", "n", "d">>,
    kilometer_per_hour |-> <<"k", "i", "l", "o", "m", "e", "t", "e", "r", "_", "p", "e", "r", "_", "h", "o", "u", "r">>,
    mile_per_hour |-> <<"m", "i", "l", "e", "_", "p", "e", "r", "_", "h", "o", "u", "r">>,
    USD |-> <<"U", "S", "D">>,
    EUR |-> <<"E", "U", "R">>,
    GBP |-> <<"G", "B", "P">>,
    JPY |-> <<"J", "P", "Y">>,
    INR |-> <<"I", "N", "R">> ]

LowerCase == <<"a", "b", "c", "d", "e", "f", "g", "h", "i", "j", "k", "l", "m", "n", "o", "p", "q", "r", "s", "t", "u", "v", "w", "x", "y", "z">>
UpperCase == <<"A", "B", "C", "D", "E", "F", "G", "H", "I", "J", "K", "L", "M", "N", "O", "P", "Q", "R", "S", "T", "U", "V", "W", "X", "Y", "Z">>
Digits == {"0", "1", "2", "3", "4", "5", "6", "7", "8", "9"}

\* the class \w of a regular expression
IsWordChar(c) == c \in Range(LowerCase) \cup Range(UpperCase) \cup Digits \cup {"_"}

\* c.toUpperCase()
toUpperCase(c) ==
  IF c \in Range(LowerCase)
  THEN UpperCase[CHOOSE i \in 1..Len(LowerCase) : LowerCase[i] = c]
  ELSE c

\* s.replace(/_/g, ' ')
ReplaceUnderscores(s) == [i \in 1..Len(s) |-> IF s[i] = "_" THEN " " ELSE s[i]]

\* a slip: s.replace(/([a-z])/, c => c.toUpperCase()), the first lower-case
\* letter of the text instead of the first letter of every word
CapitalizeFirstMatch(s) ==
  [i \in 1..Len(s) |->
     IF s[i] \in Range(LowerCase)
          /\ \A j \in 1..(i - 1) : s[j] \notin Range(LowerCase)
     THEN toUpperCase(s[i]) ELSE s[i]]

\* s.replace(/\b([a-z])/g, c => c.toUpperCase()): a lower-case letter has a
\* word boundary before it when it starts the text or follows a character
\* that is not of class \w
Capitalize(s) ==
  [i \in 1..Len(s) |->
     IF s[i] \in Range(LowerCase) /\ (i = 1 \/ ~IsWordChar(s[i - 1]))
     THEN toUpperCase(s[i]) ELSE s[i]]

formatUnit(unit) ==
  IF unit = <<>> THEN <<>> ELSE Capitalize(ReplaceUnderscores(unit))

\* the identifiers of the catalog, in characters
CatalogTexts ==
  { Spell[u] : u \in UNION { Range(staticConfig[c]) : c \in DOMAIN staticConfig } }

\* the characters of the other texts given to formatUnit
FormatAlphabet == {"a", "b", "A", "1", "_", " "}

\* the texts given to formatUnit: the identifiers of the catalog, the empty
\* identifier, and every short text over the alphabet
FormatInputs ==
  CatalogTexts \cup UNION { [1..n -> FormatAlphabet] : n \in 0..MaxTextLen }

InitFormat ==
  /\ InitApp
  /\ maxEdits = 0
  /\ maxSubmits = 0
  /\ unitText \in FormatInputs
  /\ label = unitText
  /\ passes = 0

\* one application of formatUnit to the text
formatUnitApply ==
  /\ passes < MaxPasses
  /\ label' = formatUnit(label)
  /\ passes' = passes + 1
  /\ lastOp' = "formatUnit"
  /\ UNCHANGED <<category, value, fromUnit, toUnit, result, error, isLoading,
                 enableCurrency, currencyFrom, currencyTo, currencyValue,
                 currencyResult, history, stdPending, curPending, now,
                 edits, submits, maxEdits, maxSubmits, lastResp, errorOf,
                 accepted, requests, unitText>>

NextFormat == formatUnitApply

SpecFormat == InitFormat /\ [][NextFormat]_vars

(* ------------------------------ properties ----------------------------- *)
StdOps == {"handleConvert", "handleConvertSettle"}
CurOps == {"handleCurrencyConvert", "handleCurrencyConvertSettle"}

\* lastResp is a response of the service with a success status and a body
IsSuccess(resp) == resp.reached /\ resp.ok /\ resp.body

\* C1: the history holds at most 10 entries, most recent first; a record
\* made when 10 are held puts the new entry first, keeps the 9 most recent
\* previous entries in their order and drops the oldest.
C1_LedgerBounded ==
  /\ [](/\ Len(history) <= 10
        /\ \A i \in 1..(Len(history) - 1) :
             history[i].timestamp > history[i + 1].timestamp)
  /\ [][(Len(history) = 10 /\ history' # history) =>
          /\ Len(history') = 10
          /\ history'[1].timestamp > history[1].timestamp
          /\ \A i \in 1..9 : history'[i + 1] = history[i]]_vars

\* eleven entries were recorded: ten are held and the first one is gone
C1_Witness ==
  /\ lastOp = "handleConvertSettle"
  /\ Len(history) = 10
  /\ history[1].timestamp = 11
  /\ history[10].timestamp = 2

\* C2: at most one standard request and at most one currency request is in
\* flight, for any interleaving of user events and request completions.
C2_OneInFlight == Len(stdPending) <= 1 /\ Len(curPending) <= 1

\* a second submit of the standard workflow, accepted after the first settled
C2_Witness ==
  /\ lastOp = "handleConvert"
  /\ submits = 2
  /\ curPending = <<>>
  /\ Len(stdPending) = 1

\* C3: the error message of one workflow stays displayed until the next
\* submit of that workflow; no event of the other workflow changes it.
C3_ErrorIsolation ==
  [][/\ (errorOf = "standard" /\ lastOp' # "handleConvert") => error' = error
     /\ (errorOf = "currency" /\ lastOp' # "handleCurrencyConvert")
          => error' = error]_vars

\* C4: every successful response of a standard conversion appends exactly
\* one entry to the history, whatever the user edited meanwhile; a failed
\* standard conversion appends none.
C4_EverySuccessRecorded ==
  [][lastOp' = "handleConvertSettle" =>
       IF IsSuccess(lastResp')
       THEN /\ Len(history') = Min(10, Len(history) + 1)
            /\ Tail(history') = Slice(history, 9)
            /\ history'[1].result = result'
       ELSE history' = history]_vars

\* C5: no currency submit, success or failure changes the history, and no
\* entry of the history is a currency conversion.
C5_CurrencyNotRecorded ==
  /\ [][lastOp' \in CurOps => history' = history]_vars
  /\ [](\A i \in 1..Len(history) :
          /\ history[i].category # "Currency"
          /\ history[i].result[3] \notin CurrencyOptions)

\* a currency conversion succeeded after a standard conversion was recorded
C5_Witness ==
  /\ lastOp = "handleCurrencyConvertSettle"
  /\ IsSuccess(lastResp)
  /\ currencyResult # <<>>
  /\ Len(history) = 1

\* C6: while a standard request is in flight a currency submit (currency
\* enabled, amount non-empty) is accepted, and while a currency request is
\* in flight a standard submit (value non-empty) is accepted.
C6_IndependentWorkflows ==
  /\ (stdPending # <<>> /\ enableCurrency /\ currencyValue # "")
       => CurrencyConvertEnabled
  /\ (curPending # <<>> /\ value # "") => ConvertEnabled

\* C7: a change of category to C sets fromUnit to catalog[C][0] and toUnit
\* to catalog[C][1] (catalog[C][0] when C has one unit), whatever units
\* were selected before.
C7_CategoryResetsUnits ==
  [][lastOp' = "ChangeCategory" =>
       /\ category' # category
       /\ category' \in CategoryOptions
       /\ fromUnit' = staticConfig[category'][1]
       /\ toUnit' = IF Len(staticConfig[category']) > 1
                    THEN staticConfig[category'][2]
                    ELSE staticConfig[category'][1]]_vars

\* the user had converted from miles (recorded in the history) before the
\* change to Weight
C7_Witness ==
  /\ lastOp = "ChangeCategory"
  /\ category = "Weight"
  /\ fromUnit = "gram"
  /\ toUnit = "kilogram"
  /\ history # <<>>
  /\ history[1].fromUnit = "mile"

\* C8: after a non-success response of a standard conversion the error is
\* the response's detail if present, "Conversion failed." if the response
\* has no body or no detail; the result is empty.
C8_FailureMessage ==
  (lastOp = "handleConvertSettle" /\ lastResp.reached /\ ~lastResp.ok) =>
    /\ error = IF lastResp.body /\ lastResp.hasDetail
               THEN lastResp.detail ELSE "Conversion failed."
    /\ result = <<>>

\* C9: the standard error is "Could not reach backend." when the endpoint
\* was unreachable, and never when the endpoint was reached and answered.
C9_TransportMessageDistinct ==
  lastOp = "handleConvertSettle" =>
    (error = "Could not reach backend.") = ~lastResp.reached

C11_OneOutcome ==
  /\ ~(result # <<>> /\ error # "")
  /\ stdPending # <<>> => (result = <<>> /\ error = "")
  /\ ~(currencyResult # <<>> /\ error # "")
  /\ curPending # <<>> => (currencyResult = <<>> /\ error = "")

\* C12: an accepted submit sets Loading and clears the previous result and
\* error of its workflow, so no outcome of an earlier request is visible
\* while the new request is in flight.
C12_SubmitClearsOutcome ==
  /\ lastOp = "handleConvert" => Len(stdPending) = 1
  /\ lastOp = "handleCurrencyConvert" => Len(curPending) = 1
  /\ stdPending # <<>> => (isLoading /\ result = <<>> /\ error = "")
  /\ curPending # <<>> => (isLoading /\ currencyResult = <<>> /\ error = "")

\* a second standard submit, made while the result of the first was shown
C12_Witness ==
  /\ lastOp = "handleConvert"
  /\ Len(history) = 1
  /\ history[1].result # <<>>
  /\ result = <<>>
  /\ isLoading

\* C13: fromUnit and toUnit belong to the unit list of the current category
\* in every state in which a user event can be taken.
C13_UnitsOfCategory ==
  /\ fromUnit \in UnitOptions(category)
  /\ toUnit \in UnitOptions(category)

\* units picked by hand in a category other than the initial one
C13_Witness ==
  /\ lastOp = "ChangeToUnit"
  /\ category = "Weight"
  /\ fromUnit = "gram"
  /\ toUnit = "ounce"

\* C14: every completion (success, failure response, transport failure)
\* clears the loading flag and leaves its workflow in Success or Error, and
\* a request in flight that completes leads to such a state.
C14_CompletionEndsLoading ==
  /\ [](lastOp = "handleConvertSettle" =>
          (~isLoading /\ stdPending = <<>> /\ (result # <<>> \/ error # "")))
  /\ [](lastOp = "handleCurrencyConvertSettle" =>
          (~isLoading /\ curPending = <<>>
             /\ (currencyResult # <<>> \/ error # "")))
  /\ (stdPending # <<>>) ~>
       (stdPending = <<>> /\ ~isLoading /\ (result # <<>> \/ error # ""))
  /\ (curPending # <<>>) ~>
       (curPending = <<>> /\ ~isLoading
          /\ (currencyResult # <<>> \/ error # ""))

\* a standard request that could not reach the endpoint has completed
C14_Witness ==
  /\ lastOp = "handleConvertSettle"
  /\ ~lastResp.reached
  /\ ~isLoading
  /\ error = "Could not reach backend."

\* C15: each accepted submit issues exactly one request and no request is
\* issued otherwise (no retry): the requests made to an endpoint are as
\* many as the accepted submits of its workflow.
C15_OneRequestPerSubmit ==
  /\ [](requests = accepted)
  /\ [](accepted.convert + accepted.currency = submits)
  /\ [][/\ lastOp' = "handleConvert" =>
            (requests'.convert = requests.convert + 1
               /\ Len(stdPending') = Len(stdPending) + 1)
        /\ lastOp' = "handleCurrencyConvert" =>
            (requests'.currency = requests.currency + 1
               /\ Len(curPending') = Len(curPending) + 1)
        /\ lastOp' \notin {"handleConvert", "handleCurrencyConvert"} =>
            (requests' = requests
               /\ Len(stdPending') <= Len(stdPending)
               /\ Len(curPending') <= Len(curPending))]_vars

\* a standard request failed in transport and was not sent again
C15_Witness ==
  /\ lastOp = "handleConvertSettle"
  /\ ~lastResp.reached
  /\ requests.convert = 1
  /\ accepted.convert = 1
  /\ stdPending = <<>>

\* C16: a currency submit is accepted, and a currency request issued, only
\* while the currency-enabled flag is true.
C16_NoCurrencyRequestWhenDisabled ==
  /\ [](CurrencyConvertEnabled => enableCurrency)
  /\ [][requests'.currency # requests.currency =>
          (enableCurrency /\ lastOp' = "handleCurrencyConvert")]_vars

\* the converter is switched off with an amount typed in and nothing in
\* flight: only the flag keeps the submit away
C16_Witness ==
  /\ lastOp = "ToggleCurrency"
  /\ ~enableCurrency
  /\ currencyValue # ""
  /\ ~isLoading
  /\ requests.currency = 0

\* C17: every standard request issued carries a non-empty value and every
\* currency request issued a non-empty amount.
C17_NoEmptyValueInRequest ==
  /\ \A i \in 1..Len(stdPending) : stdPending[i].value # ""
  /\ \A i \in 1..Len(curPending) : curPending[i].amount # ""
  /\ lastOp = "handleConvert" => value # ""
  /\ lastOp = "handleCurrencyConvert" => currencyValue # ""

\* the value field was emptied while the request made from it is in flight
C17_Witness ==
  /\ Len(stdPending) = 1
  /\ stdPending[1].value = "5"
  /\ value = ""

\* C18 as stated: for each kind of failed completion the currency workflow
\* ends with the error message the standard workflow ends with.
C18_SameFailureMessage ==
  (lastOp = "handleCurrencyConvertSettle" /\ ~IsSuccess(lastResp)) =>
    error = ConvertError(lastResp, "")

\* C18 as amended: the currency workflow ends in Error for the completions
\* for which the standard workflow does; the message is the same when the
\* failure response carries a non-empty detail, and otherwise it is
\* "Currency conversion failed." where the standard workflow has
\* "Conversion failed." and "Could not reach backend for currency." where
\* the standard workflow has "Could not reach backend.".
C18_ParallelFailureMessage ==
  (lastOp = "handleCurrencyConvertSettle" /\ ~IsSuccess(lastResp)) =>
    /\ currencyResult = <<>>
    /\ ConvertError(lastResp, "") # ""
    /\ CASE ConvertError(lastResp, "") = "Could not reach backend."
              /\ ~(lastResp.reached /\ lastResp.body) ->
                error = "Could not reach backend for currency."
         [] ConvertError(lastResp, "") = "Conversion failed."
              /\ ~(lastResp.hasDetail /\ lastResp.detail # "") ->
                error = "Currency conversion failed."
         [] OTHER ->
                error = lastResp.detail /\ error = ConvertError(lastResp, "")

\* a currency request that could not reach the endpoint has completed
C18_Witness ==
  /\ lastOp = "handleCurrencyConvertSettle"
  /\ ~lastResp.reached
  /\ error = "Could not reach backend for currency."

\* C19: a history entry records the request that produced it: its category,
\* value, fromUnit and toUnit are those of the submitted request, and the
\* unit in its result is its toUnit, whatever was edited in flight.
C19_EntryRecordsRequest ==
  /\ [](\A i \in 1..Len(history) : history[i].result[3] = history[i].toUnit)
  /\ [][(lastOp' = "handleConvertSettle" /\ history' # history) =>
          \E i \in 1..Len(stdPending) :
            /\ history'[1].category = stdPending[i].category
            /\ history'[1].value = stdPending[i].value
            /\ history'[1].fromUnit = stdPending[i].from_unit
            /\ history'[1].toUnit = stdPending[i].to_unit]_vars

\* C20: formatUnit is idempotent: formatting a formatted label gives the
\* label, for every unit identifier of the catalog and the empty one.
C20_FormatUnitIdempotent ==
  /\ passes >= 1 => formatUnit(label) = label
  /\ passes >= 2 => label = formatUnit(unitText)

\* an identifier with underscores, formatted twice
C20_Witness ==
  /\ passes = 2
  /\ unitText = Spell["meter_per_second"]
  /\ label = <<"M", "e", "t", "e", "r", " ", "P", "e", "r", " ",
               "S", "e", "c", "o", "n", "d">>

====
